---- MODULE Spec2Model ----
(***************************************************************************)
(* ts2re (src/src/main.ts): the translation of a TypeScript declaration    *)
(* tree into a tree of Modules (the model builder: visitNode, visitModule, *)
(* visitInterface, getMethod, getVariables), the type mapper (getType) and *)
(* the printer (printModule, printInterface, printMethod).                 *)
(*                                                                         *)
(* A JavaScript string is a sequence of pieces; the string is the          *)
(* concatenation of its pieces.  An identifier is one piece, the pieces of *)
(* a template are its literal parts, and the type-variable marker ' and    *)
(* the line end are pieces of their own, so two strings the program builds *)
(* are equal exactly when their piece sequences are equal.                 *)
(***************************************************************************)
EXTENDS Integers, Sequences, FiniteSets, TLC

VARIABLES target, file, out, pc, printed

vars == <<target, file, out, pc, printed>>

\* ------------------------------------------------------------------ bounds

MaxStatements == 2

MaxDepth == 2

\* --------------------------------------------------------------- constants

ModuleTypeName == "t"

Indentation == "  "

ModifierFlagsStatic == 32

\* JavaScript's null and undefined, as a template literal renders them.
Null == <<"null">>

Undefined == <<"undefined">>

\* The absent type annotation (node.type is undefined).
NoType == [kind |-> "undefined"]

Falsy(s) == s = Null \/ s = Undefined \/ s = <<>>

\* a || b on strings
OrElse(a, b) == IF Falsy(a) THEN b ELSE a

RECURSIVE join(_, _)
join(strs, sep) ==
  IF strs = <<>> THEN <<>>
  ELSE IF Len(strs) = 1 THEN strs[1]
  ELSE strs[1] \o sep \o join(Tail(strs), sep)

indexOf(arr, x) == \E i \in 1..Len(arr) : arr[i] = x

\* ------------------------------------------------------------- type mapper

MappedTypesKeys ==
  { <<"Date">>, <<"Object">>, <<"Array">>, <<"RegExp">>, <<"String">>,
    <<"Number">>, <<"Function", ".", "t">> }

MappedTypes(name) ==
  CASE name = <<"Date">> -> <<"DateTime">>
    [] name = <<"Object">> -> <<"obj">>
    [] name = <<"Array">> -> <<"ResizeArray">>
    [] name = <<"RegExp">> -> <<"Regex">>
    [] name = <<"String">> -> <<"string">>
    [] name = <<"Number">> -> <<"float">>
    [] name = <<"Function", ".", "t">> -> <<"(<..> => <..>)">>
    [] OTHER -> Undefined

\* node is the chain of syntax-tree nodes from a node up to the root, each
\* given by its typeParameters (the names; <<>> when the node has none);
\* the empty chain is the absent parent of the root.
RECURSIVE findTypeParameters(_, _)
findTypeParameters(node, acc) ==
  IF node = <<>> THEN acc
  ELSE findTypeParameters(Tail(node), acc \o Head(node))

\* The raw name of a named type reference (the default case of getType).
typeRefName(type) ==
  LET name0 == IF type.form \in {"typeName", "qualifiedName"}
               THEN <<type.text, ".", ModuleTypeName>>
               ELSE IF type.form \in {"expression", "propertyAccess"}
                    THEN <<type.text>>
                    ELSE Null
      name1 == IF type.form = "propertyAccess"
               THEN <<type.left, ".", type.right>>
               ELSE name0
  IN  IF type.form = "qualifiedName"
      THEN <<type.left, ".", type.right, ".", ModuleTypeName>>
      ELSE name1

\* getType(type): parents is the chain of the strict ancestors of the type
\* node (type.parent, type.parent.parent, ...).
RECURSIVE getType(_, _)
getType(type, parents) ==
  LET here == <<IF type.kind = "FunctionType" THEN type.typeParameters ELSE <<>> >>
                \o parents
  IN
  CASE type.kind = "undefined" -> <<"'", "a">>
    [] type.kind = "StringKeyword" -> <<"string">>
    [] type.kind = "NumberKeyword" -> <<"float">>
    [] type.kind = "BooleanKeyword" -> <<"bool">>
    [] type.kind = "VoidKeyword" -> <<"unit">>
    [] type.kind = "SymbolKeyword" -> <<"Symbol">>
    [] type.kind = "ArrayType" -> <<"array ">> \o getType(type.elementType, here)
    [] type.kind = "FunctionType" ->
         LET cbParams == join([i \in 1..Len(type.parameters) |->
                                 IF type.parameters[i].dotDotDotToken
                                 THEN <<"'", "a">>
                                 ELSE getType(type.parameters[i].type, here)],
                              <<" => ">>)
         IN  <<"(">> \o (IF cbParams = <<>> THEN <<"unit">> ELSE cbParams)
               \o <<" => ">> \o getType(type.type, here) \o <<")">>
    [] type.kind = "UnionType" ->
         IF type.types[1].kind = "StringLiteral"
         THEN <<"(* TODO StringEnum ">>
                \o join([i \in 1..Len(type.types) |->
                           IF type.types[i].kind = "StringLiteral"
                           THEN <<type.types[i].text>> ELSE <<>>],
                        <<" | ">>)
                \o <<" *) string">>
         ELSE <<"'", "a">>
    [] type.kind = "TupleType" ->
         join([i \in 1..Len(type.elementTypes) |->
                 getType(type.elementTypes[i], here)], <<" * ">>)
    [] type.kind = "ParenthesizedType" -> getType(type.type, here)
    [] type.kind = "ThisType" -> <<ModuleTypeName>>
    [] OTHER ->
         LET raw == typeRefName(type)
             t == MappedTypes(raw)
             name == IF t # Undefined THEN t ELSE raw
             typeParameters == findTypeParameters(here, <<>>)
             typeArgs == IF type.form = "none" THEN <<>> ELSE type.typeArguments
             \* printTypeArguments
             args == IF Len(typeArgs) = 0 THEN <<>>
                     ELSE <<"(">>
                            \o join([i \in 1..Len(typeArgs) |-> getType(typeArgs[i], here)],
                                    <<", ">>)
                            \o <<")">>
             result == name \o args
         IN  IF raw = Null THEN <<"'", "a">>
             ELSE (IF indexOf([i \in 1..Len(typeParameters) |-> <<typeParameters[i]>>], result)
                   THEN <<"'">> ELSE <<>>) \o result

\* -------------------------------------------------------------- syntax tree

\* An absent child node (node.name, node.expression, node.type undefined).
NoNode == [kind |-> "undefined"]

Field(node, f) == IF f \in DOMAIN node THEN node[f] ELSE NoNode

\* node.text
text(node) == IF "text" \in DOMAIN node THEN <<node.text>> ELSE Undefined

\* node.typeParameters (the names), <<>> when the node declares none
typeParametersOf(node) ==
  IF "typeParameters" \in DOMAIN node THEN node.typeParameters ELSE <<>>

\* a flags field: <<>> when it is undefined, <<n>> when it is the number n
flagsOf(node, f) == IF f \in DOMAIN node THEN node[f] ELSE <<>>

\* node.questionToken != null, node.dotDotDotToken != null
hasToken(node, f) == f \in DOMAIN node /\ node[f]

BitAnd(flags, flag) == IF (flags \div flag) % 2 = 1 THEN flag ELSE 0

\* flags is <<>> (undefined) or <<n>>
hasFlag(flags, flag) == flags # <<>> /\ BitAnd(flags[1], flag) = flag

getName(node) ==
  LET expression == Field(node, "expression")
  IN  IF expression.kind = "PropertyAccessExpression"
      THEN <<expression.expression.text, ".", expression.name.text>>
      ELSE IF Field(node, "name").kind # "undefined"
           THEN text(node.name)
           ELSE IF expression.kind # "undefined" THEN text(expression) ELSE Null

\* The result of a call that may throw: ok = FALSE is the TypeError.
Ok(v) == [ok |-> TRUE, val |-> v]

Throw == [ok |-> FALSE, val |-> <<>>]

\* ------------------------------------------------------------ model builder

sentinelParam == [name |-> <<>>, type |-> <<"unit">>, optional |-> FALSE, rest |-> FALSE]

\* chain: the syntax-tree chain from the parameter's owner up to the root
getParameter(param, chain) ==
  [name |-> <<param.name.text>>,
   type |-> getType(Field(param, "type"), chain),
   optional |-> hasToken(param, "questionToken"),
   rest |-> hasToken(param, "dotDotDotToken")]

\* node.parameters.map(getParameter); own is the chain from the node itself
mapParameters(parameters, own) ==
  [i \in 1..Len(parameters) |-> getParameter(parameters[i], own)]

\* the push of the sentinel: mapped is meth.parameters before it
withSentinel(mapped) ==
  IF \E i \in 1..Len(mapped) : mapped[i].optional
  THEN Append(mapped, sentinelParam) ELSE mapped

\* the Method literal of getMethod, with its type and parameters evaluated
methodOf(node, opts, type, parameters) ==
  [name |-> OrElse(opts.name, getName(node)),
   type |-> type,
   optional |-> hasToken(node, "questionToken"),
   static |-> \/ opts.static
              \/ /\ Field(node, "name").kind # "undefined"
                 /\ hasFlag(flagsOf(node.name, "parserContextFlags"), ModifierFlagsStatic)
              \/ /\ "modifiers" \in DOMAIN node
                 /\ hasFlag(flagsOf(node.modifiers, "flags"), ModifierFlagsStatic),
   parameters |-> parameters,
   ctor |-> opts.ctor,
   maker |-> FALSE,
   moduleName |-> OrElse(opts.moduleName, <<>>),
   emit |-> Undefined]

\* getMethod with the sentinel pushed whether or not a parameter is optional
getMethod_AlwaysSentinel(node, opts, chain) ==
  methodOf(node, opts,
           getType(Field(node, "type"), <<typeParametersOf(node)>> \o chain),
           Append(mapParameters(node.parameters, <<typeParametersOf(node)>> \o chain),
                  sentinelParam))

\* chain: the chain from the enclosing declaration (node.parent) up to the root
getMethod(node, opts, chain) ==
  methodOf(node, opts,
           getType(Field(node, "type"), <<typeParametersOf(node)>> \o chain),
           withSentinel(mapParameters(node.parameters,
                                      <<typeParametersOf(node)>> \o chain)))

getProperty(node, optsName, chain) ==
  [name |-> OrElse(optsName, getName(node)),
   type |-> getType(Field(node, "type"), chain),
   optional |-> hasToken(node, "questionToken"),
   static |-> /\ Field(node, "name").kind # "undefined"
              /\ hasFlag(flagsOf(node.name, "parserContextFlags"), ModifierFlagsStatic),
   emit |-> Undefined]

getParents(node, chain) ==
  LET clauses == IF "heritageClauses" \in DOMAIN node THEN node.heritageClauses ELSE <<>>
      RECURSIVE collect(_)
      collect(cs) ==
        IF cs = <<>> THEN <<>>
        ELSE [j \in 1..Len(Head(cs).types) |-> getType(Head(cs).types[j], chain)]
               \o collect(Tail(cs))
  IN  collect(clauses)

printTypeParameters(typeParams) ==
  IF Len(typeParams) = 0 THEN <<>>
  ELSE <<"(">> \o join([i \in 1..Len(typeParams) |-> <<"'", typeParams[i]>>], <<", ">>)
         \o <<")">>

\* getInterface returns undefined (ok = FALSE, any use of it throws) for an
\* anonymous interface: its only return statement is the body of
\* if (!opts.anonymous).  An undefined node throws in getParents.
getInterface(node, opts) ==
  IF node.kind = "undefined" \/ opts.anonymous THEN Throw
  ELSE Ok([name |-> OrElse(opts.name,
                           getName(node) \o printTypeParameters(typeParametersOf(node))),
           kind |-> IF opts.kind = "" THEN "interface" ELSE opts.kind,
           parents |-> IF opts.kind = "alias"
                       THEN <<getType(Field(node, "type"), <<typeParametersOf(node)>>)>>
                       ELSE getParents(node, <<typeParametersOf(node)>>),
           properties |-> <<>>,
           methods |-> <<>>])

\* opts.name of the getMethod and getProperty calls of visitInterface
memberName(node) ==
  CASE node.kind = "CallSignature" -> <<"invoke">>
    [] node.kind = "ConstructSignature" -> <<"Create">>
    [] node.kind = "IndexSignature" -> <<"Item">>
    [] node.kind = "Constructor" -> <<"make">>
    [] Field(node, "name").kind = "ComputedPropertyName" ->
         <<"[">> \o getName(node.name) \o <<"]">>
    [] OTHER -> Undefined

\* member.emit, undefined where visitInterface sets none
memberEmit(node) ==
  CASE node.kind = "CallSignature" -> <<"$0($1...)">>
    [] node.kind = "ConstructSignature" -> <<"new $0($1...)">>
    [] node.kind = "IndexSignature" -> <<"$0[$1]{{=$2}}">>
    [] node.kind = "Constructor" -> Undefined
    [] Field(node, "name").kind = "ComputedPropertyName" ->
         IF node.kind \in {"PropertySignature", "PropertyDeclaration"}
         THEN <<"$0[">> \o getName(node.name) \o <<"]{{=$1}}">>
         ELSE <<"$0[">> \o getName(node.name) \o <<"]($1...)">>
    [] OTHER -> Undefined

\* the member a case of the switch builds
memberOf(ifc, node, chain) ==
  IF node.kind \in {"PropertySignature", "PropertyDeclaration"}
  THEN [getProperty(node, memberName(node), chain) EXCEPT !.emit = memberEmit(node)]
  ELSE [getMethod(node, [name |-> memberName(node), static |-> FALSE,
                         ctor |-> node.kind = "Constructor", moduleName |-> ifc.name],
                  chain)
          EXCEPT !.emit = memberEmit(node)]

\* One member of a class, an interface or an object type (the callback of
\* members.forEach in visitInterface); ifc is the Interface being filled.
visitMember(ifc, node, chain) ==
  CASE node.kind \in {"PropertySignature", "PropertyDeclaration", "IndexSignature"} ->
         [ifc EXCEPT !.properties = Append(@, memberOf(ifc, node, chain))]
    [] node.kind \in {"CallSignature", "MethodSignature", "MethodDeclaration",
                      "ConstructSignature", "Constructor"} ->
         [ifc EXCEPT !.methods = Append(@, memberOf(ifc, node, chain))]
    [] OTHER -> ifc

RECURSIVE visitMembers(_, _, _)
visitMembers(ifc, members, chain) ==
  IF members = <<>> THEN ifc
  ELSE visitMembers(visitMember(ifc, Head(members), chain), Tail(members), chain)

\* the parameters of the make function: properties mapped to parameters
makerParameters(properties) ==
  [i \in 1..Len(properties) |->
     [name |-> properties[i].name,
      optional |-> properties[i].optional,
      type |-> properties[i].type,
      rest |-> FALSE]]

\* the Method literal makeMeth
makerOf(ifc, parameters) ==
  [name |-> <<"make">>,
   type |-> <<ModuleTypeName>>,
   optional |-> FALSE,
   static |-> TRUE,
   parameters |-> parameters,
   ctor |-> FALSE,
   maker |-> TRUE,
   moduleName |-> ifc.name,
   emit |-> Undefined]

\* makeMeth with every parameter required
makeMeth_AllRequired(ifc) ==
  makerOf(ifc, [i \in 1..Len(ifc.properties) |->
                  [name |-> ifc.properties[i].name,
                   optional |-> FALSE,
                   type |-> ifc.properties[i].type,
                   rest |-> FALSE]])

\* The convenience make function of an interface or a type alias.
makeMeth(ifc) == makerOf(ifc, withSentinel(makerParameters(ifc.properties)))

\* node.type.members of a type alias, node.members otherwise; [] when absent
membersOf(node, opts) ==
  IF opts.kind = "type-alias"
  THEN (IF "members" \in DOMAIN node.type THEN node.type.members ELSE <<>>)
  ELSE (IF "members" \in DOMAIN node THEN node.members ELSE <<>>)

\* visitInterface after getInterface: got is what getInterface returned
fillInterface(got, node, opts) ==
  IF ~got.ok THEN Throw
  ELSE IF opts.kind # "class"
       THEN Ok([visitMembers(got.val, membersOf(node, opts), <<typeParametersOf(node)>>)
                  EXCEPT !.methods = Append(@, makeMeth(
                    visitMembers(got.val, membersOf(node, opts),
                                 <<typeParametersOf(node)>>)))])
       ELSE Ok(visitMembers(got.val, membersOf(node, opts), <<typeParametersOf(node)>>))

\* opts: [name, kind, anonymous]; kind "" and name Undefined when not given
visitInterface(node, opts) == fillInterface(getInterface(node, opts), node, opts)

\* What for (const x of obj) runs over.  An array gives its elements.  A
\* syntax-tree node is no array, has no length and is not iterable: the loop
\* compiled for ES5 (an index loop up to obj.length) runs zero times, the
\* native loop of ES2015 throws a TypeError.
forOf(obj) ==
  IF obj.kind = "Array" THEN Ok(obj.items)
  ELSE IF target = "ES5" THEN Ok(<<>>) ELSE Throw

\* variables.push({...}) with the type evaluated; type is what evaluating it
\* returned or threw
variableOf(declaration, type) ==
  IF ~type.ok THEN Throw
  ELSE Ok([name |-> <<declaration.name.text>>, type |-> type.val,
           static |-> TRUE, parameters |-> <<>>])

\* i.name of the anonymous interface
nameOf(i) == IF i.ok THEN Ok(i.val.name) ELSE Throw

\* The body of the inner loop of getVariables for one declaration; declarations
\* is the object the loop runs over.
getVariable(declarations, declaration) ==
  IF Field(declaration, "type").kind = "undefined" THEN Throw
  ELSE IF declaration.type.kind = "TypeLiteral"
       THEN variableOf(declaration,
                       nameOf(visitInterface(Field(declarations, "type"),
                                             [name |-> <<declaration.name.text, "Type">>,
                                              kind |-> "", anonymous |-> TRUE])))
       ELSE variableOf(declaration, Ok(getType(Field(declarations, "type"), <<>>)))

\* a \o b of two results, the TypeError of either
Cat(a, b) == IF ~a.ok \/ ~b.ok THEN Throw ELSE Ok(a.val \o b.val)

\* <<a>> of a result
One(a) == IF a.ok THEN Ok(<<a.val>>) ELSE Throw

RECURSIVE getVariablesOf(_, _)
getVariablesOf(declarations, items) ==
  IF ~items.ok THEN Throw
  ELSE IF items.val = <<>> THEN Ok(<<>>)
  ELSE Cat(One(getVariable(declarations, Head(items.val))),
           getVariablesOf(declarations, Ok(Tail(items.val))))

RECURSIVE getVariablesIn(_)
getVariablesIn(declarationList) ==
  IF declarationList = <<>> THEN Ok(<<>>)
  ELSE Cat(getVariablesOf(Head(declarationList), forOf(Head(declarationList))),
           getVariablesIn(Tail(declarationList)))

getVariables(node) ==
  getVariablesIn(IF node.declarationList.kind = "Array"
                 THEN node.declarationList.items
                 ELSE <<node.declarationList>>)

emptyModule(name) ==
  [name |-> name, modules |-> <<>>, variables |-> <<>>, interfaces |-> <<>>,
   methods |-> <<>>]

isStringEnumAlias(node) ==
  /\ "types" \in DOMAIN node.type
  /\ node.type.types[1].kind = "StringLiteral"

\* opts.kind of the visitInterface call of visitNode
kindOf(node) ==
  CASE node.kind = "InterfaceDeclaration" -> "interface"
    [] node.kind = "ClassDeclaration" -> "class"
    [] node.kind = "TypeAliasDeclaration" -> "type-alias"

\* m.interfaces.push(i), m.variables.push(...vs), m.modules.push(mx) of a
\* value that a call returned or threw
pushInterface(m, i) ==
  IF i.ok THEN Ok([m EXCEPT !.interfaces = Append(@, i.val)]) ELSE Throw

pushVariables(m, variables) ==
  IF variables.ok THEN Ok([m EXCEPT !.variables = @ \o variables.val]) ELSE Throw

pushModule(m, visitedModule) ==
  IF visitedModule.ok THEN Ok([m EXCEPT !.modules = Append(@, visitedModule.val)])
  ELSE Throw

\* the Module visitModule returns for a block: m is the Module its
\* statements were visited into
moduleOfBlock(name, m) ==
  IF m.ok
  THEN Ok([name |-> name, modules |-> m.val.modules, variables |-> m.val.variables,
           interfaces |-> m.val.interfaces, methods |-> m.val.methods])
  ELSE Throw

\* the Module visitModule returns for a dotted name: inner is the Module of
\* its body
moduleOfDotted(name, inner) ==
  IF inner.ok THEN Ok([emptyModule(name) EXCEPT !.modules = <<inner.val>>]) ELSE Throw

RECURSIVE visitNode(_, _), visitModule(_), visitStatements(_, _)

\* visitModule with the namespace of a dotted name returned in place of its
\* parent
visitModule_Flattened(node) ==
  IF Field(node, "body").kind = "ModuleDeclaration" THEN visitModule(node.body)
  ELSE moduleOfBlock(getName(node),
                     visitStatements(Ok(emptyModule(getName(node))),
                                     node.body.statements))

\* visitNode(m)(node): the Module m after the statement, or the TypeError
visitNode(m, node) ==
  CASE node.kind \in {"InterfaceDeclaration", "ClassDeclaration"}
         \/ (node.kind = "TypeAliasDeclaration" /\ ~isStringEnumAlias(node)) ->
         pushInterface(m, visitInterface(node, [name |-> Undefined, kind |-> kindOf(node),
                                                anonymous |-> FALSE]))
    [] node.kind = "VariableStatement" -> pushVariables(m, getVariables(node))
    [] node.kind = "FunctionDeclaration" ->
         Ok([m EXCEPT !.methods = Append(@,
               getMethod(node, [name |-> Undefined, static |-> TRUE, ctor |-> FALSE,
                                moduleName |-> m.name], <<>>))])
    [] node.kind = "ModuleDeclaration" -> pushModule(m, visitModule(node))
    [] OTHER -> Ok(m)

\* body.statements.forEach(visitNode(m)); m is the Module so far, or the
\* TypeError of an earlier statement
visitStatements(m, statements) ==
  IF ~m.ok THEN Throw
  ELSE IF statements = <<>> THEN m
  ELSE visitStatements(visitNode(m.val, Head(statements)), Tail(statements))

visitModule(node) ==
  CASE Field(node, "body").kind = "undefined" -> Throw
    [] Field(node, "body").kind = "ModuleDeclaration" ->
         moduleOfDotted(getName(node), visitModule(node.body))
    [] Field(node, "body").kind = "ModuleBlock" ->
         moduleOfBlock(getName(node),
                       visitStatements(Ok(emptyModule(getName(node))),
                                       node.body.statements))
    [] OTHER -> Ok(emptyModule(getName(node)))

\* ------------------------------------------------------------------ printer

RECURSIVE indent(_)
indent(depth) == IF depth = 0 THEN <<>> ELSE <<Indentation>> \o indent(depth - 1)

pp(str, depth) == indent(depth) \o str \o <<"\n">>

printVariable(variable) ==
  <<"external ">> \o variable.name \o <<" : ">> \o variable.type
    \o <<" = \"\" [@@bs.val];">>

printParameter(p, includeName) ==
  LET prefix == IF (includeName \/ p.optional) /\ Len(p.name) > 0
                THEN (IF p.optional THEN <<"?">> ELSE <<>>) \o p.name \o <<"::">>
                ELSE <<>>
  IN  prefix \o p.type

\* rootModule is <<>> (null) or <<m>>
printMethod(m, rootModule) ==
  LET named == join([i \in 1..Len(m.parameters) |-> printParameter(m.parameters[i], TRUE)],
                    <<" => ">>)
      typed == join([i \in 1..Len(m.parameters) |-> printParameter(m.parameters[i], FALSE)],
                    <<" => ">>)
  IN
  IF m.ctor \/ m.maker
  THEN LET bsAttribute == IF m.ctor THEN "new" ELSE "obj"
           params == IF Len(m.parameters) # 0 THEN named ELSE <<"unit">>
           suffix == IF m.ctor
                     THEN <<" [@@bs.module \"">> \o rootModule[1].name \o <<"\"]">>
                     ELSE <<>>
           ffiName == IF m.ctor THEN m.moduleName ELSE <<>>
       IN  IF m.ctor /\ rootModule = <<>> THEN Throw
           ELSE Ok(<<"external ">> \o m.name \o <<" : ">> \o params \o <<" => ">>
                     \o <<ModuleTypeName>> \o <<" = \"">> \o ffiName \o <<"\" [@@bs.">>
                     \o <<bsAttribute>> \o <<"]">> \o suffix \o <<";">>)
  ELSE IF ~m.static
  THEN LET params == IF Len(m.parameters) # 0 THEN <<" => ">> \o typed ELSE <<>>
       IN  Ok(<<"external ">> \o m.name \o <<" : ">> \o <<ModuleTypeName>> \o params
                \o <<" => ">> \o m.type \o <<" = \"\" [@@bs.send];">>)
  ELSE LET params == IF Len(m.parameters) # 0 THEN <<" => ">> \o typed ELSE <<"unit">>
       IN  Ok(<<"external ">> \o m.name \o <<" : ">> \o params \o <<" => ">> \o m.type
                \o <<" = \"\";">>)

\* str.charAt(0).toUpperCase(), for the first piece of a name
toUpperCase(c) ==
  CASE c = "x" -> "X"
    [] c = "y" -> "Y"
    [] c = "p" -> "P"
    [] c = "q" -> "Q"
    [] OTHER -> c

capitalize(str) == IF str = <<>> THEN <<>> ELSE <<toUpperCase(Head(str))>> \o Tail(str)

printProperty(p, depth) ==
  pp(<<"external set">> \o capitalize(p.name) \o <<" : ">> \o <<ModuleTypeName>>
       \o <<" => ">> \o (IF p.optional THEN <<"option ">> ELSE <<>>) \o p.type
       \o <<" => unit = \"">> \o p.name \o <<"\" [@@bs.set];">>, depth)
  \o pp(<<"external get">> \o capitalize(p.name) \o <<" : ">> \o <<ModuleTypeName>>
          \o <<" => ">> \o (IF p.optional THEN <<"option ">> ELSE <<>>) \o p.type
          \o <<" = \"">> \o p.name \o <<"\" [@@bs.get]">>
          \o (IF p.optional THEN <<" [@@bs.return null_undefined_to_opt]">> ELSE <<>>)
          \o <<";">>, depth)
  \o <<"\n">>

\* pp(str, depth) of a string a call returned or threw
ppOf(str, depth) == IF str.ok THEN Ok(pp(str.val, depth)) ELSE Throw

\* for (const meth of methods) str += pp(printMethod(meth, rootModule), depth)
RECURSIVE printMethods(_, _, _)
printMethods(methods, rootModule, depth) ==
  IF methods = <<>> THEN Ok(<<>>)
  ELSE Cat(ppOf(printMethod(Head(methods), rootModule), depth),
           printMethods(Tail(methods), rootModule, depth))

RECURSIVE printProperties(_, _)
printProperties(properties, depth) ==
  IF properties = <<>> THEN <<>>
  ELSE printProperty(Head(properties), depth) \o printProperties(Tail(properties), depth)

printInterface(i, rootModule, depth) ==
  Cat(Ok(pp(<<"let module ">> \o i.name \o <<" = {">>, depth)
         \o pp(<<"type ">> \o <<ModuleTypeName>> \o <<";">>, depth + 1)
         \o <<"\n">>),
      Cat(printMethods(i.methods, rootModule, depth + 1),
          Ok(printProperties(i.properties, depth + 1) \o pp(<<"};">>, depth))))

RECURSIVE printVariables(_, _)
printVariables(variables, depth) ==
  IF variables = <<>> THEN <<>>
  ELSE pp(printVariable(Head(variables)), depth) \o printVariables(Tail(variables), depth)

RECURSIVE printInterfaces(_, _, _)
printInterfaces(interfaces, rootModule, depth) ==
  IF interfaces = <<>> THEN Ok(<<>>)
  ELSE Cat(Cat(printInterface(Head(interfaces), rootModule, depth), Ok(<<"\n">>)),
           printInterfaces(Tail(interfaces), rootModule, depth))

RECURSIVE printModule(_, _, _), printModules(_, _, _)

\* printModule with the loops over m.methods and m.interfaces exchanged
printModule_InterfacesFirst(m, rootModule, depth) ==
  LET isRoot == rootModule = <<>>
      childDepth == IF isRoot THEN depth ELSE depth + 1
  IN  Cat(Ok(IF ~isRoot THEN pp(<<"let module ">> \o m.name \o <<" = {">>, depth) \o <<"\n">>
             ELSE <<>>),
      Cat(Ok(printVariables(m.variables, childDepth)),
      Cat(printInterfaces(m.interfaces, rootModule, childDepth),
      Cat(printMethods(m.methods, rootModule, childDepth),
      Cat(printModules(m.modules, m, childDepth),
          Ok(IF ~isRoot THEN pp(<<"};">>, depth) ELSE <<>>))))))

printModule(m, rootModule, depth) ==
  LET isRoot == rootModule = <<>>
      childDepth == IF isRoot THEN depth ELSE depth + 1
  IN  Cat(Ok(IF ~isRoot THEN pp(<<"let module ">> \o m.name \o <<" = {">>, depth) \o <<"\n">>
             ELSE <<>>),
      Cat(Ok(printVariables(m.variables, childDepth)),
      Cat(printMethods(m.methods, rootModule, childDepth),
      Cat(printInterfaces(m.interfaces, rootModule, childDepth),
      Cat(printModules(m.modules, m, childDepth),
          Ok(IF ~isRoot THEN pp(<<"};">>, depth) ELSE <<>>))))))

\* for (const mx of m.modules) str += printModule(mx, m, childDepth) + '\n'
printModules(modules, m, depth) ==
  IF modules = <<>> THEN Ok(<<>>)
  ELSE Cat(Cat(printModule(Head(modules), <<m>>, depth), Ok(<<"\n">>)),
           printModules(Tail(modules), m, depth))

\* ------------------------------------------------------------------ inputs
\* The syntax trees the parser hands to parseFile, by node kind.

Id(t) == [kind |-> "Identifier", text |-> t]

Keyword(k) == [kind |-> k, form |-> "none"]

\* name<typeArguments>
Ref(t, typeArguments) ==
  [kind |-> "TypeReference", form |-> "typeName", text |-> t,
   typeArguments |-> typeArguments]

\* left.right
QualifiedRef(left, right) ==
  [kind |-> "TypeReference", form |-> "qualifiedName", left |-> left, right |-> right,
   typeArguments |-> <<>>]

\* the type of a heritage clause: extends name
ExprRef(t) ==
  [kind |-> "ExpressionWithTypeArguments", form |-> "expression", text |-> t,
   typeArguments |-> <<>>]

\* the type of a heritage clause: extends left.right
AccessRef(left, right) ==
  [kind |-> "ExpressionWithTypeArguments", form |-> "propertyAccess", left |-> left,
   right |-> right, typeArguments |-> <<>>]

StringLiteral(t) == [kind |-> "StringLiteral", form |-> "none", text |-> t]

Union(types) == [kind |-> "UnionType", types |-> types]

Param(name, type, questionToken, dotDotDotToken) ==
  [kind |-> "Parameter", name |-> Id(name), type |-> type,
   questionToken |-> questionToken, dotDotDotToken |-> dotDotDotToken]

A == Param("a", Keyword("NumberKeyword"), FALSE, FALSE)

AOpt == Param("a", Keyword("NumberKeyword"), TRUE, FALSE)

BOpt == Param("b", Keyword("StringKeyword"), TRUE, FALSE)

\* <U>(u: U, ...r) => T
Callback ==
  [kind |-> "FunctionType", typeParameters |-> <<"U">>,
   parameters |-> <<Param("u", Ref("U", <<>>), FALSE, FALSE),
                    Param("r", NoType, FALSE, TRUE)>>,
   type |-> Ref("T", <<>>)]

\* parameters whose types are named type references
RefParams ==
  << Param("a", Ref("T", <<>>), FALSE, FALSE),
     Param("d", Ref("Date", <<>>), FALSE, FALSE),
     Param("e", Ref("Array", <<Ref("T", <<>>)>>), FALSE, FALSE),
     Param("g", [kind |-> "ArrayType", elementType |-> Ref("T", <<>>)], FALSE, FALSE),
     Param("h", QualifiedRef("Electron", "App"), FALSE, FALSE),
     Param("i", Ref("Function", <<>>), FALSE, FALSE),
     Param("cb", Callback, FALSE, FALSE) >>

Function(typeParameters, parameters, type) ==
  [kind |-> "FunctionDeclaration", name |-> Id("foo"), typeParameters |-> typeParameters,
   parameters |-> parameters, type |-> type]

FunctionDeclarations ==
  { Function(<<>>, ps, Keyword("VoidKeyword")) :
      ps \in { <<>>, <<A>>, <<A, BOpt>>, <<AOpt, BOpt>>,
               <<Param("r", Keyword("NumberKeyword"), FALSE, TRUE)>> } }
  \cup { Function(tps, RefParams, Ref("T", <<>>)) : tps \in { <<>>, <<"T">> } }

Property(name, type, questionToken) ==
  [kind |-> "PropertySignature", name |-> name, type |-> type,
   questionToken |-> questionToken]

Method(kind, name, parameters, type) ==
  [kind |-> kind, name |-> name, parameters |-> parameters, type |-> type,
   questionToken |-> FALSE]

\* static name(): void, as a parser that records the modifier flags gives it
StaticMethod(name) ==
  [kind |-> "MethodDeclaration", name |-> name, parameters |-> <<>>,
   type |-> Keyword("VoidKeyword"), questionToken |-> FALSE,
   modifiers |-> [flags |-> <<ModifierFlagsStatic>>]]

\* call, construct and index signatures and the constructor have no name
Signature(kind, parameters, type) ==
  [kind |-> kind, parameters |-> parameters, type |-> type]

Computed(expression) == [kind |-> "ComputedPropertyName", expression |-> expression]

SymbolIterator ==
  [kind |-> "PropertyAccessExpression", expression |-> Id("Symbol"), name |-> Id("iterator")]

X == Property(Id("x"), Keyword("NumberKeyword"), FALSE)

YOpt == Property(Id("y"), Keyword("StringKeyword"), TRUE)

MemberLists ==
  { <<>>,
    <<X, YOpt>>,
    <<X, Property(Id("y"), Keyword("StringKeyword"), FALSE)>>,
    << Method("MethodSignature", Id("m"), <<A>>, Keyword("VoidKeyword")),
       X,
       Method("MethodSignature", Id("n"), <<AOpt, BOpt>>, Ref("T", <<>>)),
       Property(Id("p"), Ref("T", <<>>), FALSE),
       Property(Id("q"), Ref("Date", <<>>), TRUE) >>,
    << Signature("CallSignature", <<AOpt>>, Keyword("VoidKeyword")),
       Signature("ConstructSignature", <<A>>, Ref("T", <<>>)),
       Signature("IndexSignature", <<Param("k", Keyword("StringKeyword"), FALSE, FALSE)>>,
                 Keyword("NumberKeyword")),
       Signature("IndexSignature", <<Param("k", Keyword("NumberKeyword"), TRUE, FALSE)>>,
                 Keyword("StringKeyword")) >>,
    << Method("MethodSignature", Computed(SymbolIterator), <<>>, Keyword("VoidKeyword")),
       Property(Computed(Id("k")), Keyword("BooleanKeyword"), TRUE),
       Property(Id("p"), Keyword("ThisType"), FALSE),
       Property(Id("q"), [kind |-> "TupleType",
                          elementTypes |-> <<Keyword("NumberKeyword"),
                                             Keyword("SymbolKeyword")>>], FALSE),
       Property(Id("x"), [kind |-> "ParenthesizedType",
                          type |-> Union(<<StringLiteral("a"), StringLiteral("b")>>)],
                FALSE),
       Property(Id("y"), Union(<<Keyword("NumberKeyword"), Keyword("StringKeyword")>>),
                FALSE),
       [kind |-> "GetAccessor", name |-> Id("z")] >> }

Heritage == { <<>>, <<[types |-> <<ExprRef("T"), ExprRef("Date")>>],
                      [types |-> <<AccessRef("Function", "t")>>]>> }

InterfaceDeclarations ==
  { [kind |-> "InterfaceDeclaration", name |-> Id("Foo"), typeParameters |-> <<>>,
     heritageClauses |-> <<>>, members |-> ms] : ms \in MemberLists }
  \cup { [kind |-> "InterfaceDeclaration", name |-> Id("Foo"), typeParameters |-> <<"T">>,
          heritageClauses |-> h, members |-> <<X>>] : h \in Heritage }

Ctor(parameters) == Signature("Constructor", parameters, NoType)

ClassMemberLists ==
  { <<>>,
    <<Ctor(<<>>)>>,
    << Ctor(<<A, BOpt>>), Ctor(<<A>>),
       Method("MethodDeclaration", Id("m"), <<A>>, Keyword("VoidKeyword")),
       Method("MethodDeclaration", Id("n"), <<>>, Keyword("VoidKeyword")),
       StaticMethod(Id("s")),
       [X EXCEPT !.kind = "PropertyDeclaration"] >>,
    << Method("MethodDeclaration", Id("m"), <<A, BOpt>>, Keyword("NumberKeyword")),
       [YOpt EXCEPT !.kind = "PropertyDeclaration"] >> }

ClassDeclarations ==
  { [kind |-> "ClassDeclaration", name |-> Id("Bar"), typeParameters |-> <<>>,
     heritageClauses |-> <<>>, members |-> ms] : ms \in ClassMemberLists }
  \cup { [kind |-> "ClassDeclaration", name |-> Id("Bar"), typeParameters |-> <<"T">>,
          heritageClauses |-> <<[types |-> <<ExprRef("T")>>]>>,
          members |-> <<Ctor(<<Param("a", Ref("T", <<>>), FALSE, FALSE)>>)>>] }

TypeAliasDeclarations ==
  { [kind |-> "TypeAliasDeclaration", name |-> Id("Baz"), typeParameters |-> tps,
     type |-> t] :
      tps \in { <<>> },
      t \in { [kind |-> "TypeLiteral", form |-> "none", members |-> <<X, YOpt>>],
              Union(<<StringLiteral("a"), StringLiteral("b")>>),
              Union(<<Keyword("NumberKeyword"), StringLiteral("b")>>),
              Ref("Array", <<Keyword("NumberKeyword")>>) } }

Declaration(name, type) ==
  IF type = NoType THEN [kind |-> "VariableDeclaration", name |-> Id(name)]
  ELSE [kind |-> "VariableDeclaration", name |-> Id(name), type |-> type]

VariableStatements ==
  { [kind |-> "VariableStatement",
     declarationList |-> [kind |-> "VariableDeclarationList", declarations |-> ds]] :
      ds \in { <<Declaration("x", Keyword("NumberKeyword"))>>,
               <<Declaration("x", Keyword("NumberKeyword")),
                 Declaration("y", Ref("Date", <<>>))>>,
               <<Declaration("x", NoType)>>,
               <<Declaration("x", [kind |-> "TypeLiteral", form |-> "none",
                                   members |-> <<X>>])>> } }

EnumDeclarations == { [kind |-> "EnumDeclaration", name |-> Id("E")] }

ModuleBlock(name, statements) ==
  [kind |-> "ModuleDeclaration", name |-> Id(name),
   body |-> [kind |-> "ModuleBlock", statements |-> statements]]

\* namespace name.<inner>
Dotted(name, inner) ==
  [kind |-> "ModuleDeclaration", name |-> Id(name), body |-> inner]

ClassWithCtor ==
  [kind |-> "ClassDeclaration", name |-> Id("Bar"), typeParameters |-> <<>>,
   heritageClauses |-> <<>>, members |-> <<Ctor(<<>>)>>]

InterfaceXY ==
  [kind |-> "InterfaceDeclaration", name |-> Id("Foo"), typeParameters |-> <<>>,
   heritageClauses |-> <<>>, members |-> <<X, YOpt>>]

\* the statements of an innermost namespace block
Payloads ==
  { <<ClassWithCtor>>,
    << InterfaceXY,
       Function(<<>>, <<A, BOpt>>, Keyword("VoidKeyword")),
       ClassWithCtor,
       Function(<<>>, <<>>, Keyword("VoidKeyword")) >> }

LevelName(d) == CASE d = 1 -> "N1" [] d = 2 -> "N2" [] d = 3 -> "N3" [] OTHER -> "N"

\* the namespaces nested exactly d deep
RECURSIVE Namespaces(_)
Namespaces(d) ==
  IF d = 1 THEN { ModuleBlock(LevelName(1), p) : p \in Payloads }
  ELSE { Dotted(LevelName(d), n) : n \in Namespaces(d - 1) }
       \cup { ModuleBlock(LevelName(d), <<n>>) : n \in Namespaces(d - 1) }

InterfaceWithMethod ==
  [kind |-> "InterfaceDeclaration", name |-> Id("Foo"), typeParameters |-> <<"T">>,
   heritageClauses |-> <<>>,
   members |-> << X, Method("MethodSignature", Id("m"), <<A>>, Keyword("VoidKeyword")),
                  YOpt >>]

\* a namespace block with namespaces, functions, an interface and a class
WideNamespace ==
  ModuleBlock("Wide", << ModuleBlock("L", <<ClassWithCtor>>),
                         Function(<<>>, <<A>>, Keyword("VoidKeyword")),
                         InterfaceWithMethod,
                         Dotted("R", ModuleBlock("S", <<>>)),
                         ClassWithCtor,
                         Function(<<>>, <<>>, Keyword("VoidKeyword")) >>)

ModuleDeclarations ==
  UNION { Namespaces(d) : d \in 1..MaxDepth }
  \cup { ModuleBlock("Empty", <<>>), WideNamespace }

\* ----------------------------------------------------------- state machine

\* parseFile: the root Module before the first child is visited
Init ==
  /\ target \in {"ES5", "ES2015"}
  /\ file = <<>>
  /\ out = [name |-> <<"electron">>, modules |-> <<>>, variables |-> <<>>,
            interfaces |-> <<>>, methods |-> <<>>, typeAliases |-> <<>>]
  /\ pc = "parse"
  /\ printed = <<>>

\* TS.forEachChild(file, visitNode(rootModule)) hands over the next child
\* m is rootModule after the child, or the TypeError the visit threw
Visited(m) ==
  IF m.ok THEN out' = m.val /\ pc' = pc
  ELSE out' = out /\ pc' = "parse threw"

Visit(node) ==
  /\ pc = "parse"
  /\ Len(file) < MaxStatements
  /\ file' = Append(file, node)
  /\ Visited(visitNode(out, node))
  /\ UNCHANGED <<target, printed>>

VisitInterfaceDeclaration == \E node \in InterfaceDeclarations : Visit(node)

VisitClassDeclaration == \E node \in ClassDeclarations : Visit(node)

VisitTypeAliasDeclaration == \E node \in TypeAliasDeclarations : Visit(node)

VisitVariableStatement == \E node \in VariableStatements : Visit(node)

VisitFunctionDeclaration == \E node \in FunctionDeclarations : Visit(node)

VisitModuleDeclaration == \E node \in ModuleDeclarations : Visit(node)

VisitEnumDeclaration == \E node \in EnumDeclarations : Visit(node)

\* forEachChild has no more children: parseFile returns rootModule
ParseFileReturns ==
  /\ pc = "parse"
  /\ pc' = "parsed"
  /\ UNCHANGED <<target, file, out, printed>>

\* const printed = printModule(out, null, 0)
\* str is the text printModule returned, or the TypeError it threw
Printed(str) ==
  IF str.ok THEN printed' = str.val /\ pc' = "printed"
  ELSE printed' = printed /\ pc' = "print threw"

PrintModule ==
  /\ pc = "parsed"
  /\ Printed(printModule(out, <<>>, 0))
  /\ UNCHANGED <<target, file, out>>

Next ==
  \/ VisitInterfaceDeclaration
  \/ VisitClassDeclaration
  \/ VisitTypeAliasDeclaration
  \/ VisitVariableStatement
  \/ VisitFunctionDeclaration
  \/ VisitModuleDeclaration
  \/ VisitEnumDeclaration
  \/ ParseFileReturns
  \/ PrintModule

Spec == Init /\ [][Next]_vars

\* ------------------------------------------------- the printer on its own
\* printModule as a function of a Module tree: the trees the model builder
\* builds, with Variables (which getVariables yields for no tree of the
\* parser) in every Module, as the Module type allows.

Variable(name, type) ==
  [name |-> <<name>>, type |-> type, static |-> TRUE, parameters |-> <<>>]

VariableLists ==
  { <<>>, <<Variable("x", <<"float">>)>>,
    <<Variable("y", <<"Date", ".", "t">>), Variable("x", <<"float">>)>> }

RECURSIVE WithVariables(_, _)
WithVariables(m, variables) ==
  [m EXCEPT !.variables = variables,
            !.modules = [i \in 1..Len(m.modules) |->
                           WithVariables(m.modules[i], variables)]]

PrinterStatements ==
  { Function(<<>>, <<A, BOpt>>, Keyword("VoidKeyword")),
    InterfaceXY,
    InterfaceWithMethod,
    [kind |-> "ClassDeclaration", name |-> Id("Bar"), typeParameters |-> <<>>,
     heritageClauses |-> <<>>,
     members |-> << [X EXCEPT !.kind = "PropertyDeclaration"],
                    Method("MethodDeclaration", Id("m"), <<>>, Keyword("VoidKeyword")),
                    StaticMethod(Id("s")) >>],
    ClassWithCtor,
    ModuleBlock("Empty", <<>>),
    WideNamespace }
  \cup { ModuleBlock("Outer", <<n>>) : n \in Namespaces(1) }

StatementLists ==
  UNION { [1..n -> PrinterStatements] : n \in 0..MaxStatements }

InitPrinter ==
  /\ target \in {"ES5", "ES2015"}
  /\ file \in StatementLists
  /\ out = [name |-> <<"electron">>, modules |-> <<>>, variables |-> <<>>,
            interfaces |-> <<>>, methods |-> <<>>, typeAliases |-> <<>>]
  /\ pc = "parse"
  /\ printed = <<>>

\* parseFile(file) in one step, its Modules given the Variables of a list
ParseFile ==
  /\ pc = "parse"
  /\ \E variables \in VariableLists :
       out' = WithVariables(visitStatements(Ok(out), file).val, variables)
  /\ pc' = "parsed"
  /\ UNCHANGED <<target, file, printed>>

NextPrinter ==
  \/ ParseFile
  \/ PrintModule

SpecPrinter == InitPrinter /\ [][NextPrinter]_vars

\* ------------------------------------------------------------------ claims

\* The children of the file visitNode has returned from: the last child is
\* left out when the visit of it threw.
Children == IF pc = "parse threw" THEN SubSeq(file, 1, Len(file) - 1) ELSE file

IsFunction(node) == node.kind = "FunctionDeclaration"

IsNamespace(node) == node.kind = "ModuleDeclaration"

IsVariableStatement(node) == node.kind = "VariableStatement"

\* a class, interface or type-alias declaration
IsTypeDeclaration(node) ==
  node.kind \in {"ClassDeclaration", "InterfaceDeclaration", "TypeAliasDeclaration"}

\* a type-alias declaration whose type is a union with a string literal first
IsStringUnionAlias(node) ==
  /\ node.kind = "TypeAliasDeclaration"
  /\ node.type.kind = "UnionType"
  /\ node.type.types[1].kind = "StringLiteral"

\* the declarations an Interface record of the Module stands for, in order
RecordedDeclaration(node) == IsTypeDeclaration(node) /\ ~IsStringUnionAlias(node)

\* the statements directly inside a namespace: the nested namespace of a
\* dotted name, or the statements of its block
StatementsOf(ns) ==
  IF ns.body.kind = "ModuleDeclaration" THEN <<ns.body>> ELSE ns.body.statements

MembersOf(decl) ==
  IF decl.kind = "TypeAliasDeclaration"
  THEN (IF "members" \in DOMAIN decl.type THEN decl.type.members ELSE <<>>)
  ELSE decl.members

HasParameters(member) == "parameters" \in DOMAIN member

IsIndexSignature(member) == member.kind = "IndexSignature"

IsMethodMember(member) == HasParameters(member) /\ ~IsIndexSignature(member)

IsMaker(meth) == meth.maker

IsDeclared(meth) == ~meth.maker

Range(seq) == { seq[i] : i \in 1..Len(seq) }

\* every Interface record of a Module tree
RECURSIVE InterfacesOf(_)
InterfacesOf(m) ==
  Range(m.interfaces) \cup UNION { InterfacesOf(m.modules[i]) : i \in 1..Len(m.modules) }

\* The sentinel law for one parameter list: params is what the syntax tree
\* declares, built is the parameter list of the Method.
SentinelLaw(params, built) ==
  LET n == Len(params)
      someOptional == \E i \in 1..n : params[i].questionToken
  IN  /\ Len(built) = n + (IF someOptional THEN 1 ELSE 0)
      /\ \A i \in 1..n :
           /\ built[i].name = <<params[i].name.text>>
           /\ built[i].optional = params[i].questionToken
           /\ built[i].rest = params[i].dotDotDotToken
      /\ someOptional => built[n + 1] = sentinelParam
      /\ Cardinality({ i \in 1..Len(built) : built[i] = sentinelParam }) <= 1

\* The sentinel law for a maker: properties are the Interface's properties.
MakerSentinelLaw(properties, built) ==
  LET n == Len(properties)
      someOptional == \E i \in 1..n : properties[i].optional
  IN  /\ Len(built) = n + (IF someOptional THEN 1 ELSE 0)
      /\ \A i \in 1..n : built[i].name = properties[i].name
      /\ someOptional => built[n + 1] = sentinelParam
      /\ Cardinality({ i \in 1..Len(built) : built[i] = sentinelParam }) <= 1

InterfaceSentinelLaw(decl, ifc) ==
  LET declared == SelectSeq(MembersOf(decl), IsMethodMember)
      methods == SelectSeq(ifc.methods, IsDeclared)
      signatures == SelectSeq(MembersOf(decl), IsIndexSignature)
      items == SelectSeq(ifc.properties, HasParameters)
  IN  /\ Len(methods) = Len(declared)
      /\ \A i \in 1..Len(declared) :
           SentinelLaw(declared[i].parameters, methods[i].parameters)
      /\ Len(items) = Len(signatures)
      /\ \A i \in 1..Len(signatures) :
           SentinelLaw(signatures[i].parameters, items[i].parameters)
      /\ \A i \in 1..Len(ifc.methods) :
           ifc.methods[i].maker =>
             MakerSentinelLaw(ifc.properties, ifc.methods[i].parameters)

RECURSIVE ModuleSentinelLaw(_, _)
ModuleSentinelLaw(statements, m) ==
  LET functions == SelectSeq(statements, IsFunction)
      decls == SelectSeq(statements, RecordedDeclaration)
      namespaces == SelectSeq(statements, IsNamespace)
  IN  /\ Len(m.methods) = Len(functions)
      /\ \A i \in 1..Len(functions) :
           SentinelLaw(functions[i].parameters, m.methods[i].parameters)
      /\ Len(m.interfaces) = Len(decls)
      /\ \A i \in 1..Len(decls) : InterfaceSentinelLaw(decls[i], m.interfaces[i])
      /\ Len(m.modules) = Len(namespaces)
      /\ \A i \in 1..Len(namespaces) :
           ModuleSentinelLaw(StatementsOf(namespaces[i]), m.modules[i])

\* C1: every parameter list built by getMethod (members, call, construct and
\* index signatures, constructors, module-level functions) and every maker's
\* parameter list is the declared list, followed by exactly one sentinel
\* parameter if and only if a declared parameter is optional.
C1_SentinelLaw == ModuleSentinelLaw(Children, out)

\* C1's case: a module-level function and a maker both got the sentinel, and a
\* constructor without optional parameters got none.
C1_Witness ==
  /\ \E i \in 1..Len(out.methods) :
       /\ Len(out.methods[i].parameters) = 3
       /\ out.methods[i].parameters[3] = sentinelParam
  /\ \E ifc \in InterfacesOf(out) :
       \E i \in 1..Len(ifc.methods) :
         /\ ifc.methods[i].maker
         /\ Len(ifc.methods[i].parameters) = 3
         /\ ifc.methods[i].parameters[3] = sentinelParam

\* C2: an Interface of a kind other than class has exactly one maker; it is
\* named make, is the last method, and its first N parameters are the N
\* properties' (name, optional, type) in order, followed only by the sentinel
\* when a property is optional.  An Interface of kind class has no maker.
C2_MakerLaw ==
  \A ifc \in InterfacesOf(out) :
    LET makers == SelectSeq(ifc.methods, IsMaker)
        n == Len(ifc.properties)
        make == ifc.methods[Len(ifc.methods)]
        someOptional == \E i \in 1..n : ifc.properties[i].optional
    IN  IF ifc.kind = "class" THEN makers = <<>>
        ELSE /\ Len(makers) = 1
             /\ make.maker
             /\ make.name = <<"make">>
             /\ Len(make.parameters) = n + (IF someOptional THEN 1 ELSE 0)
             /\ \A i \in 1..n :
                  /\ make.parameters[i].name = ifc.properties[i].name
                  /\ make.parameters[i].optional = ifc.properties[i].optional
                  /\ make.parameters[i].type = ifc.properties[i].type
             /\ someOptional => make.parameters[n + 1] = sentinelParam

\* C2's case: a type alias and an interface with properties, one of them
\* optional, got their makers, and a class with methods got none.
C2_Witness ==
  /\ \E ifc \in InterfacesOf(out) :
       /\ ifc.kind = "type-alias"
       /\ Len(ifc.properties) = 2
       /\ Len(ifc.methods[Len(ifc.methods)].parameters) = 3
  /\ \E ifc \in InterfacesOf(out) :
       /\ ifc.kind = "class"
       /\ Len(ifc.methods) > 1

StartsWithMarker(str) == str # <<>> /\ Head(str) = "'"

\* a type reference by a simple name, without type arguments
IsSimpleRef(type) ==
  /\ type.kind = "TypeReference"
  /\ type.form = "typeName"
  /\ type.typeArguments = <<>>

\* C3: a named type reference whose identifier is a type parameter declared
\* on an enclosing node is rendered with the leading type-variable marker, and
\* without it when no enclosing node declares the identifier.  (The parameter
\* types of the module-level functions.)
C3_TypeVariableLaw ==
  LET functions == SelectSeq(Children, IsFunction)
  IN  \A k \in 1..Len(functions) :
        \A i \in 1..Len(functions[k].parameters) :
          LET type == functions[k].parameters[i].type
          IN  (type.kind = "TypeReference" /\ IsSimpleRef(type)) =>
                (StartsWithMarker(out.methods[k].parameters[i].type)
                   <=> type.text \in Range(functions[k].typeParameters))

\* C4: a named type reference whose raw name is a key of the override table
\* is rendered as the table's value, as a simple type name just as an
\* expression-style name.  (The parameter types of the module-level functions.)
C4_OverrideLaw ==
  LET functions == SelectSeq(Children, IsFunction)
  IN  \A k \in 1..Len(functions) :
        \A i \in 1..Len(functions[k].parameters) :
          LET type == functions[k].parameters[i].type
          IN  (type.kind = "TypeReference" /\ IsSimpleRef(type)
                 /\ <<type.text>> \in MappedTypesKeys) =>
                out.methods[k].parameters[i].type = MappedTypes(<<type.text>>)

\* C5: every class, interface and type-alias declaration appends exactly one
\* Interface record to the enclosing Module, whatever the alias's type.
C5_OneInterfacePerDeclaration ==
  Len(out.interfaces) = Len(SelectSeq(Children, IsTypeDeclaration))

RECURSIVE ModuleTree(_)
\* the names of the nested Modules of a Module, as a tree
ModuleTree(m) ==
  [i \in 1..Len(m.modules) |-> <<m.modules[i].name, ModuleTree(m.modules[i])>>]

RECURSIVE NamespaceTree(_)
\* the names of the namespaces among the statements, as a tree
NamespaceTree(statements) ==
  LET namespaces == SelectSeq(statements, IsNamespace)
  IN  [i \in 1..Len(namespaces) |->
         <<<<namespaces[i].name.text>>, NamespaceTree(StatementsOf(namespaces[i]))>>]

\* C6: the Modules nest exactly as the namespaces of the input do, dotted or
\* in blocks, with their names and their order; no level is added, dropped or
\* flattened.
C6_NestingLaw == ModuleTree(out) = NamespaceTree(Children)

\* C6's case: a dotted namespace and a namespace in a block, each with a
\* namespace inside that holds a class, were visited.
C6_Witness ==
  /\ pc = "parsed"
  /\ \E i, j \in 1..Len(file) :
       /\ IsNamespace(file[i]) /\ file[i].body.kind = "ModuleDeclaration"
       /\ IsNamespace(file[j]) /\ file[j].body.kind = "ModuleBlock"
       /\ Len(out.modules) = 2
       /\ Len(out.modules[i].modules) = 1
       /\ Len(out.modules[i].modules[1].interfaces) > 0
       /\ Len(out.modules[j].modules) = 1
       /\ Len(out.modules[j].modules[1].interfaces) > 0

\* C7: printModule(root, null, 0) returns a text for every Module tree the
\* model builder produces; a class constructor never makes the render fail.
C7_RenderNeverAborts == pc # "print threw"

\* C9: every binding of a variable statement appends one Variable, static and
\* with the binding's name, in declaration order, and a binding without a
\* type annotation does not abort the pass.
C9_VariableLaw ==
  LET statements == SelectSeq(file, IsVariableStatement)
      RECURSIVE bindings(_)
      bindings(ss) ==
        IF ss = <<>> THEN <<>>
        ELSE Head(ss).declarationList.declarations \o bindings(Tail(ss))
      declared == bindings(statements)
  IN  /\ pc # "parse threw"
      /\ Len(out.variables) = Len(declared)
      /\ \A i \in 1..Len(declared) :
           /\ out.variables[i].name = <<declared[i].name.text>>
           /\ out.variables[i].static

\* The printed text, read back: its lines (the pieces between line ends).
RECURSIVE Segments(_)
\* the pieces between the line ends of a text, the rest after the last line
\* end included
Segments(str) ==
  IF str = <<>> THEN << <<>> >>
  ELSE IF Len(str) = 1 THEN (IF str[1] = "\n" THEN << <<>>, <<>> >> ELSE <<str>>)
  ELSE LET half == Len(str) \div 2
           left == Segments(SubSeq(str, 1, half))
           right == Segments(SubSeq(str, half + 1, Len(str)))
       IN  SubSeq(left, 1, Len(left) - 1)
             \o <<left[Len(left)] \o right[1]>>
             \o Tail(right)

LinesOf(str) ==
  LET segments == Segments(str)
  IN  IF segments[Len(segments)] = <<>> THEN SubSeq(segments, 1, Len(segments) - 1)
      ELSE segments

\* the number of indentation units a line starts with
RECURSIVE DepthOf(_)
DepthOf(line) ==
  IF line # <<>> /\ Head(line) = Indentation THEN 1 + DepthOf(Tail(line)) ELSE 0

BodyOf(line) == SubSeq(line, DepthOf(line) + 1, Len(line))

\* the first position of a piece in a line, Len(line) + 1 when it has none
IndexOfPiece(line, piece) ==
  IF \E i \in 1..Len(line) : line[i] = piece
  THEN CHOOSE i \in 1..Len(line) :
         line[i] = piece /\ \A j \in 1..(i - 1) : line[j] # piece
  ELSE Len(line) + 1

Between(line, from, to) ==
  SubSeq(line, IndexOfPiece(line, from) + 1, IndexOfPiece(line, to) - 1)

\* what a line of the output binds, and the name it binds
ItemOfLine(body) ==
  CASE Head(body) = "external set" ->
         [kind |-> "set", name |-> Between(body, " => unit = \"", "\" [@@bs.set];"),
          items |-> <<>>]
    [] Head(body) = "external get" ->
         [kind |-> "get", name |-> Between(body, " = \"", "\" [@@bs.get]"), items |-> <<>>]
    [] Head(body) = "external " /\ body[Len(body)] = " = \"\" [@@bs.val];" ->
         [kind |-> "variable", name |-> Between(body, "external ", " : "), items |-> <<>>]
    [] Head(body) = "external " ->
         [kind |-> "method", name |-> Between(body, "external ", " : "), items |-> <<>>]
    [] OTHER -> [kind |-> "other", name |-> body, items |-> <<>>]

IsInstanceType(line) == BodyOf(line) = <<"type ", ModuleTypeName, ";">>

\* The outline of the lines of one block at one depth: its bindings in
\* emitted order, a sub-module block (a line let module <name> = { up to the
\* next line }; of the same depth) with the outline of its lines.  A block
\* that starts with the instance type is an interface's.
RECURSIVE Outline(_, _)
Outline(lines, depth) ==
  IF lines = <<>> THEN <<>>
  ELSE LET body == BodyOf(Head(lines))
           closes == { k \in 2..Len(lines) :
                         DepthOf(lines[k]) = depth /\ BodyOf(lines[k]) = <<"};">> }
           close == IF closes = {} THEN Len(lines) + 1
                    ELSE CHOOSE k \in closes : \A j \in closes : k <= j
           inner == SubSeq(lines, 2, close - 1)
       IN  IF body = <<>> THEN Outline(Tail(lines), depth)
           ELSE IF Head(body) = "let module "
           THEN << [kind |-> IF inner # <<>> /\ IsInstanceType(inner[1])
                             THEN "interface" ELSE "module",
                    name |-> Between(body, "let module ", " = {"),
                    items |-> Outline(IF inner # <<>> /\ IsInstanceType(inner[1])
                                      THEN Tail(inner) ELSE inner, depth + 1)] >>
                  \o Outline(SubSeq(lines, close + 1, Len(lines)), depth)
           ELSE <<ItemOfLine(body)>> \o Outline(Tail(lines), depth)

Item(kind, name) == [kind |-> kind, name |-> name, items |-> <<>>]

\* The outline the ordering guarantee asks of a Module: its variables, then
\* its methods, then its interfaces (the methods of each, then a setter and a
\* getter for each property), then its nested Modules, each in list order.
RECURSIVE OrderedOutline(_)
OrderedOutline(m) ==
  [i \in 1..Len(m.variables) |-> Item("variable", m.variables[i].name)]
  \o [i \in 1..Len(m.methods) |-> Item("method", m.methods[i].name)]
  \o [i \in 1..Len(m.interfaces) |->
        [kind |-> "interface", name |-> m.interfaces[i].name,
         items |->
           [j \in 1..Len(m.interfaces[i].methods) |->
              Item("method", m.interfaces[i].methods[j].name)]
           \o [j \in 1..(2 * Len(m.interfaces[i].properties)) |->
                 Item(IF j % 2 = 1 THEN "set" ELSE "get",
                      m.interfaces[i].properties[(j + 1) \div 2].name)]]]
  \o [i \in 1..Len(m.modules) |->
        [kind |-> "module", name |-> m.modules[i].name,
         items |-> OrderedOutline(m.modules[i])]]

\* C8: the lines printModule emits for a Module are its variables, then its
\* module-level methods, then its interface blocks, then its nested module
\* blocks, each group in list order; an interface block holds its methods
\* before its properties, each in list order.
C8_OutputOrder == pc = "printed" => Outline(LinesOf(printed), 0) = OrderedOutline(out)

\* C8's case: a Module with two variables and a method was printed, with a
\* nested Module that holds all four groups itself: two variables, two
\* methods, interfaces (one with two methods and properties) and two Modules.
C8_Witness ==
  /\ pc = "printed"
  /\ Len(out.variables) = 2
  /\ out.methods # <<>>
  /\ \E i \in 1..Len(out.modules) :
       /\ Len(out.modules[i].variables) = 2
       /\ Len(out.modules[i].methods) = 2
       /\ Len(out.modules[i].modules) = 2
       /\ \E j \in 1..Len(out.modules[i].interfaces) :
            /\ Len(out.modules[i].interfaces[j].methods) > 1
            /\ out.modules[i].interfaces[j].properties # <<>>

\* C10: a method that is no constructor and no maker and is static is printed
\* as external <name> : <signature> => <type> = ""; where the signature is
\* unit for an empty parameter list and otherwise the parameters' rendered
\* types joined by => with no separator before the first.  (The module-level
\* methods of the root, which follow its variables.)
C10_StaticMethodLine ==
  pc = "printed" =>
    \A i \in 1..Len(out.methods) :
      LET m == out.methods[i]
          types == [j \in 1..Len(m.parameters) |-> printParameter(m.parameters[j], FALSE)]
          signature == IF m.parameters = <<>> THEN <<"unit">> ELSE join(types, <<" => ">>)
      IN  LinesOf(printed)[Len(out.variables) + i]
            = <<"external ">> \o m.name \o <<" : ">> \o signature \o <<" => ">> \o m.type
                \o <<" = \"\";">>

====
